---- MODULE Spec2Model ----
(***************************************************************************)
(* A model of the Mandelbrot viewer of src/src/main.rs: the Model struct,  *)
(* the event handlers (key_pressed, mouse_pressed, mouse_moved,            *)
(* mouse_released), the per-frame update and view callbacks, and the pure  *)
(* pixel functions (map_rrange, mandelbrot, to_color).                     *)
(*                                                                         *)
(* Floating-point values (f32 points, f64 plane coordinates) are modelled  *)
(* as exact rationals <<n, d>> in lowest terms with d > 0: the arithmetic  *)
(* is the code's, the rounding of the machine formats is not modelled.     *)
(***************************************************************************)
EXTENDS Integers, Sequences, FiniteSets, TLC

\* ---------------------------------------------------------------- bounds

\* The elapsed clock (milliseconds since start) is explored up to this value.
MaxElapsed == 200
\* The viewport is rebased at most this many times between two resets.
MaxZooms == 2
\* A traced render maps a tile of this many consecutive pixel indices of
\* 0..WH_SIZE-1 instead of the whole range.
RasterLen == 4
\* The pixel map is split into at most this many chunks, one per worker.
MaxWorkers == 2
\* A traced render starts from a raw budget (iterations) of at most this.
MaxBudget == 2
\* A traced call of the escape-time loop has a cap (maxIter) of at most this.
MaxCap == 6
\* A traced call of to_color has a limit of at most this.
MaxLimit == 8

\* ------------------------------------------------------ program constants

STEP_DIV == 100
WIDTH == 1200
HEIGHT == 800
WH_SIZE == WIDTH * HEIGHT

\* ------------------------------------------------- exact rational numbers

Abs(n) == IF n < 0 THEN -n ELSE n

RECURSIVE GCD(_, _)
GCD(a, b) == IF b = 0 THEN Abs(a) ELSE GCD(b, a % b)

\* n/d in lowest terms with a positive denominator (d # 0).
Rat(n, d) ==
    LET g == GCD(Abs(n), Abs(d))
        s == IF d < 0 THEN -1 ELSE 1
    IN  <<(s * n) \div g, (s * d) \div g>>

R(n) == <<n, 1>>

RAdd(a, b) ==
    LET g == GCD(a[2], b[2])
    IN  Rat(a[1] * (b[2] \div g) + b[1] * (a[2] \div g), (a[2] \div g) * b[2])

RNeg(a) == <<-a[1], a[2]>>

RSub(a, b) == RAdd(a, RNeg(b))

RMul(a, b) ==
    LET g1 == GCD(Abs(a[1]), b[2])
        g2 == GCD(Abs(b[1]), a[2])
    IN  Rat((a[1] \div g1) * (b[1] \div g2), (a[2] \div g2) * (b[2] \div g1))

\* f64::recip / f32::recip of a non-zero value.
RRecip(a) == Rat(a[2], a[1])

RDiv(a, b) == RMul(a, RRecip(b))

RLt(a, b) == a[1] * b[2] < b[1] * a[2]

RLe(a, b) == a[1] * b[2] <= b[1] * a[2]

\* ------------------------------------------- unbounded exact integers
\* The orbit z -> z*z + c of a rational point has numerators that outgrow the
\* 32-bit integers of TLC, so the escape-time loop computes on integers of
\* any size: a sign and a little-endian sequence of limbs in base LIMB with no
\* leading zero limb (zero is the empty sequence).

LIMB == 10000

RECURSIVE MagOf(_)
MagOf(n) == IF n = 0 THEN <<>> ELSE <<n % LIMB>> \o MagOf(n \div LIMB)

Big(n) == [neg |-> n < 0, mag |-> MagOf(Abs(n))]

RECURSIVE MagTrim(_)
MagTrim(a) ==
    IF a = <<>> THEN <<>>
    ELSE IF a[Len(a)] = 0 THEN MagTrim(SubSeq(a, 1, Len(a) - 1)) ELSE a

\* -1, 0, 1 as a < b, a = b, a > b
RECURSIVE MagCmpFrom(_, _, _)
MagCmpFrom(a, b, k) ==
    IF k = 0 THEN 0
    ELSE IF a[k] < b[k] THEN -1
    ELSE IF a[k] > b[k] THEN 1
    ELSE MagCmpFrom(a, b, k - 1)

MagCmp(a, b) ==
    IF Len(a) < Len(b) THEN -1
    ELSE IF Len(a) > Len(b) THEN 1
    ELSE MagCmpFrom(a, b, Len(a))

Limb(a, k) == IF k <= Len(a) THEN a[k] ELSE 0

RECURSIVE MagAddFrom(_, _, _, _)
MagAddFrom(a, b, k, carry) ==
    IF k > Len(a) /\ k > Len(b)
    THEN IF carry = 0 THEN <<>> ELSE <<carry>>
    ELSE LET t == Limb(a, k) + Limb(b, k) + carry
         IN  <<t % LIMB>> \o MagAddFrom(a, b, k + 1, t \div LIMB)

MagAdd(a, b) == MagAddFrom(a, b, 1, 0)

\* a - b for a >= b
RECURSIVE MagSubFrom(_, _, _, _)
MagSubFrom(a, b, k, borrow) ==
    IF k > Len(a) THEN <<>>
    ELSE LET t == Limb(a, k) - Limb(b, k) - borrow
         IN  IF t < 0 THEN <<t + LIMB>> \o MagSubFrom(a, b, k + 1, 1)
                      ELSE <<t>> \o MagSubFrom(a, b, k + 1, 0)

MagSub(a, b) == MagTrim(MagSubFrom(a, b, 1, 0))

\* a * m for one limb m
RECURSIVE MagScaleFrom(_, _, _, _)
MagScaleFrom(a, m, k, carry) ==
    IF k > Len(a)
    THEN IF carry = 0 THEN <<>> ELSE <<carry>>
    ELSE LET t == a[k] * m + carry
         IN  <<t % LIMB>> \o MagScaleFrom(a, m, k + 1, t \div LIMB)

RECURSIVE MagMul(_, _)
MagMul(a, b) ==
    IF a = <<>> \/ b = <<>> THEN <<>>
    ELSE LET rest == MagMul(a, SubSeq(b, 2, Len(b)))
             shifted == IF rest = <<>> THEN <<>> ELSE <<0>> \o rest
         IN  MagAdd(MagTrim(MagScaleFrom(a, b[1], 1, 0)), shifted)

BNeg(a) == [neg |-> (~a.neg /\ a.mag # <<>>), mag |-> a.mag]

BAdd(a, b) ==
    IF a.neg = b.neg
    THEN [neg |-> a.neg, mag |-> MagAdd(a.mag, b.mag)]
    ELSE LET c == MagCmp(a.mag, b.mag)
         IN  IF c = 0 THEN [neg |-> FALSE, mag |-> <<>>]
             ELSE IF c > 0 THEN [neg |-> a.neg, mag |-> MagSub(a.mag, b.mag)]
             ELSE [neg |-> b.neg, mag |-> MagSub(b.mag, a.mag)]

BSub(a, b) == BAdd(a, BNeg(b))

BMul(a, b) ==
    LET m == MagMul(a.mag, b.mag)
    IN  [neg |-> (m # <<>> /\ a.neg # b.neg), mag |-> m]

\* a <= b
BLe(a, b) ==
    IF a.neg # b.neg THEN a.neg
    ELSE IF a.neg THEN MagCmp(a.mag, b.mag) >= 0
    ELSE MagCmp(a.mag, b.mag) <= 0

\* ------------------------------------------------------------ the window

WIDTH64 == R(WIDTH)
HEIGHT64 == R(HEIGHT)

\* const RANGE_X: Range<f64> = -2.00..0.47
RANGE_X == [start |-> Rat(-200, 100), end |-> Rat(47, 100)]
\* const RANGE_Y: Range<f64> = -1.12..1.12
RANGE_Y == [start |-> Rat(-112, 100), end |-> Rat(112, 100)]

\* app.window_rect() of the fixed-size window built in model(): a rectangle of
\* WIDTH x HEIGHT centred on the origin, y growing upwards.
WindowRect == [w |-> R(WIDTH), h |-> R(HEIGHT),
               left |-> Rat(-WIDTH, 2), top |-> Rat(HEIGHT, 2)]

\* Option<Point2>::None
None == <<>>

Point(x, y) == [x |-> x, y |-> y]

\* nannou's map_range(val, in_min, in_max, out_min, out_max)
map_range(val, in_min, in_max, out_min, out_max) ==
    RAdd(RMul(RDiv(RSub(val, in_min), RSub(in_max, in_min)),
              RSub(out_max, out_min)),
         out_min)

\* ----------------------------------------------------- the pixel functions

RFloor(a) == a[1] \div a[2]

RAbs(a) == <<Abs(a[1]), a[2]>>

\* f64 % of non-negative operands
RRem(a, b) == RSub(a, RMul(R(RFloor(RDiv(a, b))), b))

\* fn map_rrange(val, in_max, out_range)
map_rrange(val, in_max, out_range) ==
    RAdd(out_range.start,
         RMul(RMul(RSub(out_range.end, out_range.start), RRecip(in_max)), val))

\* The point c of mandelbrot(i, ..): the plane coordinates of pixel index i.
PixelPoint(i, rx, ry) ==
    [re |-> map_rrange(RRem(R(i), WIDTH64), WIDTH64, rx),
     im |-> map_rrange(RDiv(R(i), WIDTH64), HEIGHT64, ry)]

\* The loop with the test z.norm() < 2.0 in place of z.norm() <= 2.0.
RECURSIVE EscapeLoop_Strict(_, _, _, _, _, _, _, _)
EscapeLoop_Strict(zr, zi, den, j, n, cr, ci, cden) ==
    LET den2 == BMul(den, den)
        rr == BMul(zr, zr)
        ii == BMul(zi, zi)
        ri == BMul(zr, zi)
    IN  IF j < n /\ ~BLe(BMul(Big(4), den2), BAdd(rr, ii))
        THEN EscapeLoop_Strict(BAdd(BMul(BSub(rr, ii), cden), BMul(cr, den2)),
                               BAdd(BMul(BAdd(ri, ri), cden), BMul(ci, den2)),
                               BMul(den2, cden),
                               j + 1, n, cr, ci, cden)
        ELSE j

\* The while loop of mandelbrot on z = (zr + zi i) / den and
\* c = (cr + ci i) / cden: j < n && z.norm() <= 2.0, z = z * z + c, j += 1.
RECURSIVE EscapeLoop(_, _, _, _, _, _, _, _)
EscapeLoop(zr, zi, den, j, n, cr, ci, cden) ==
    LET den2 == BMul(den, den)
        rr == BMul(zr, zr)
        ii == BMul(zi, zi)
        ri == BMul(zr, zi)
    IN  IF j < n /\ BLe(BAdd(rr, ii), BMul(Big(4), den2))
        THEN EscapeLoop(BAdd(BMul(BSub(rr, ii), cden), BMul(cr, den2)),
                        BAdd(BMul(BAdd(ri, ri), cden), BMul(ci, den2)),
                        BMul(den2, cden),
                        j + 1, n, cr, ci, cden)
        ELSE j

\* The loop running while j <= n.
EscapeCount_CapInclusive(c, n) ==
    EscapeLoop(Big(0), Big(0), Big(1), 0, n + 1,
               BMul(Big(c.re[1]), Big(c.im[2])),
               BMul(Big(c.im[1]), Big(c.re[2])),
               BMul(Big(c.re[2]), Big(c.im[2])))

\* The loop counting j down from n and returning what is left of it.
EscapeCount_Remaining(c, n) ==
    n - EscapeLoop(Big(0), Big(0), Big(1), 0, n,
                   BMul(Big(c.re[1]), Big(c.im[2])),
                   BMul(Big(c.im[1]), Big(c.re[2])),
                   BMul(Big(c.re[2]), Big(c.im[2])))

\* The escape count of the rational point c under the cap n.
EscapeCount(c, n) ==
    EscapeLoop(Big(0), Big(0), Big(1), 0, n,
               BMul(Big(c.re[1]), Big(c.im[2])),
               BMul(Big(c.im[1]), Big(c.re[2])),
               BMul(Big(c.re[2]), Big(c.im[2])))

\* fn mandelbrot(i, n, rx, ry)
mandelbrot(i, n, rx, ry) == EscapeCount(PixelPoint(i, rx, ry), n)

\* (u8::MAX as f32 * channel) as u8 for a channel in [0, 1]
Channel(x) == RFloor(RMul(R(255), x))

\* Rgb::from_hsv(hsv(hue, 1.0, v)) for a hue in [0, 1] turns and v in {0, 1}.
HsvToRgb(hue, v) ==
    LET deg == RRem(RMul(hue, R(360)), R(360))
        h == RDiv(deg, R(60))
        c == R(v)
        x == RMul(c, RSub(R(1), RAbs(RSub(RRem(h, R(2)), R(1)))))
        z == R(0)
    IN  IF RLt(h, R(1)) THEN <<c, x, z>>
        ELSE IF RLt(h, R(2)) THEN <<x, c, z>>
        ELSE IF RLt(h, R(3)) THEN <<z, c, x>>
        ELSE IF RLt(h, R(4)) THEN <<z, x, c>>
        ELSE IF RLt(h, R(5)) THEN <<x, z, c>>
        ELSE <<c, z, x>>

\* to_color with full brightness up to and including value = limit.
to_color_LimitBright(value, limit) ==
    IF limit = 0
    THEN <<0, 0, 0>>
    ELSE LET rgb == HsvToRgb(Rat(value, limit), IF value <= limit THEN 1 ELSE 0)
         IN  <<Channel(rgb[1]), Channel(rgb[2]), Channel(rgb[3])>>

\* fn to_color(value, limit) -> [u8; 3]
to_color(value, limit) ==
    IF limit = 0
    THEN \* hue = 0/0 is NaN and v = 0: every channel is 0 or NaN, and NaN as u8 is 0
         <<0, 0, 0>>
    ELSE LET rgb == HsvToRgb(Rat(value, limit), IF value < limit THEN 1 ELSE 0)
         IN  <<Channel(rgb[1]), Channel(rgb[2]), Channel(rgb[3])>>

\* ------------------------------------------------------------ the inputs

\* Pointer positions delivered by the input source (window coordinates).
PosX == {R(-300), R(300), R(600)}
PosY == {R(-200), R(200)}
PressPos == {Point(R(-300), R(200)), Point(R(300), R(-200))}
MovePos == {Point(x, y) : x \in PosX, y \in PosY}
Buttons == {"Left", "Right", "Middle"}
Keys == {"R", "Space", "A"}
\* Advances of the elapsed clock between two ticks (milliseconds).
ClockSteps == {0, 100, 200}

\* ------------------------------------------------------------- the state

VARIABLES
    dragging, invalid, iterations, mouse_pos0, mouse_pos1, offset,
    range_x, range_y, running,   \* struct Model
    since_start,                 \* the elapsed clock read by the last update
    panicked,                    \* an unwrap() of None aborted the process
    pc,                          \* the event loop: "events" or "view"
    last,                        \* the handler that ran last
    pending,                     \* a viewport mutation has not been rendered yet
    depth,                       \* rebases since the last reset
    pre,                         \* ranges and drag flag before the last mouse_released
    raster,                      \* the parallel pixel map of one render
    call                         \* one traced call of a pure function

vars == <<dragging, invalid, iterations, mouse_pos0, mouse_pos1, offset,
          range_x, range_y, running, since_start, panicked, pc, last,
          pending, depth, pre, raster, call>>

fields == <<dragging, invalid, iterations, mouse_pos0, mouse_pos1, offset,
            range_x, range_y, running>>

\* No render is being traced.
NoRaster == [pc |-> "off"]

\* No pure-function call is being traced.
NoCall == [pc |-> "off"]

\* fn model(app) -> Model
Init ==
    /\ dragging = FALSE
    /\ invalid = TRUE
    /\ iterations = 0
    /\ mouse_pos0 = None
    /\ mouse_pos1 = None
    /\ offset = 0
    /\ range_x = RANGE_X
    /\ range_y = RANGE_Y
    /\ running = TRUE
    /\ since_start = 0
    /\ panicked = FALSE
    /\ pc = "events"
    /\ last = <<"init">>
    /\ pending = FALSE
    /\ depth = 0
    /\ pre = [range_x |-> RANGE_X, range_y |-> RANGE_Y, dragging |-> FALSE]
    /\ raster = NoRaster
    /\ call = NoCall

\* An input event is delivered between two frames of a live process.
CanHandle == pc = "events" /\ ~panicked

\* key_pressed with the depth-freezing key also invalidating the frame.
key_pressed_Invalidates(key) ==
    /\ CanHandle
    /\ offset' = IF key = "R" THEN iterations ELSE offset
    /\ invalid' = IF key = "R" THEN TRUE ELSE invalid
    /\ running' = IF key = "Space" THEN ~running ELSE running
    /\ last' = <<"key_pressed", key>>
    /\ UNCHANGED <<dragging, iterations, mouse_pos0, mouse_pos1,
                   range_x, range_y, since_start, panicked, pc, pending, depth, pre,
                   raster, call>>

\* fn key_pressed(_, model, key)
key_pressed(key) ==
    /\ CanHandle
    /\ offset' = IF key = "R" THEN iterations ELSE offset
    /\ running' = IF key = "Space" THEN ~running ELSE running
    /\ last' = <<"key_pressed", key>>
    /\ UNCHANGED <<dragging, invalid, iterations, mouse_pos0, mouse_pos1,
                   range_x, range_y, since_start, panicked, pc, pending, depth, pre,
                   raster, call>>

\* fn mouse_pressed(app, model, button); p is app.mouse.position()
mouse_pressed(button, p) ==
    /\ CanHandle
    /\ IF button = "Left"
       THEN /\ dragging' = TRUE
            /\ mouse_pos0' = p
            /\ mouse_pos1' = p
       ELSE UNCHANGED <<dragging, mouse_pos0, mouse_pos1>>
    /\ last' = <<"mouse_pressed", button>>
    /\ UNCHANGED <<invalid, iterations, offset, range_x, range_y, running,
                   since_start, panicked, pc, pending, depth, pre,
                   raster, call>>

\* The aspect-locked current point of mouse_moved.
LockedPoint(pos0, pos, rect) ==
    Point(pos.x,
          RSub(pos0.y, RMul(RMul(RSub(pos.x, pos0.x), rect.h), RRecip(rect.w))))

\* fn mouse_moved(app, model, pos)
mouse_moved(pos) ==
    /\ CanHandle
    /\ mouse_pos1' = IF dragging
                     THEN LockedPoint(mouse_pos0, pos, WindowRect)
                     ELSE mouse_pos1
    /\ last' = <<"mouse_moved", pos>>
    /\ UNCHANGED <<dragging, invalid, iterations, mouse_pos0, offset, range_x,
                   range_y, running, since_start, panicked, pc, pending, depth, pre,
                   raster, call>>

\* RebaseX without the ordering of the two mapped corners.
RebaseX_Unordered(pos0, pos1, rect, rx) ==
    [start |-> map_range(pos0.x, rect.left, RAdd(rect.left, rect.w), rx.start, rx.end),
     end |-> map_range(pos1.x, rect.left, RAdd(rect.left, rect.w), rx.start, rx.end)]

\* RebaseY with the window's lower edge taken as top + h.
RebaseY_WrongSign(pos0, pos1, rect, ry) ==
    LET y0 == map_range(pos0.y, rect.top, RAdd(rect.top, rect.h), ry.start, ry.end)
        y1 == map_range(pos1.y, rect.top, RAdd(rect.top, rect.h), ry.start, ry.end)
    IN  IF RLt(y0, y1) THEN [start |-> y0, end |-> y1]
                       ELSE [start |-> y1, end |-> y0]

\* The two ranges mouse_released computes from the selection's corners.
RebaseX(pos0, pos1, rect, rx) ==
    LET x0 == map_range(pos0.x, rect.left, RAdd(rect.left, rect.w), rx.start, rx.end)
        x1 == map_range(pos1.x, rect.left, RAdd(rect.left, rect.w), rx.start, rx.end)
    IN  IF RLt(x0, x1) THEN [start |-> x0, end |-> x1]
                       ELSE [start |-> x1, end |-> x0]

RebaseY(pos0, pos1, rect, ry) ==
    LET y0 == map_range(pos0.y, rect.top, RSub(rect.top, rect.h), ry.start, ry.end)
        y1 == map_range(pos1.y, rect.top, RSub(rect.top, rect.h), ry.start, ry.end)
    IN  IF RLt(y0, y1) THEN [start |-> y0, end |-> y1]
                       ELSE [start |-> y1, end |-> y0]

\* ReleaseLeft without the test pos0 != pos1.
ReleaseLeft_NoDegenerateCheck ==
    /\ invalid' = TRUE
    /\ dragging' = FALSE
    /\ IF mouse_pos0 = None \/ mouse_pos1 = None
       THEN /\ panicked' = TRUE
            /\ UNCHANGED <<range_x, range_y, pending, depth>>
       ELSE /\ panicked' = FALSE
            /\ depth < MaxZooms
            /\ range_x' = [start |-> map_range(mouse_pos0.x, WindowRect.left,
                                               RAdd(WindowRect.left, WindowRect.w),
                                               range_x.start, range_x.end),
                           end |-> map_range(mouse_pos1.x, WindowRect.left,
                                             RAdd(WindowRect.left, WindowRect.w),
                                             range_x.start, range_x.end)]
            /\ range_y' = [start |-> map_range(mouse_pos0.y, WindowRect.top,
                                               RSub(WindowRect.top, WindowRect.h),
                                               range_y.start, range_y.end),
                           end |-> map_range(mouse_pos1.y, WindowRect.top,
                                             RSub(WindowRect.top, WindowRect.h),
                                             range_y.start, range_y.end)]
            /\ pending' = (pending \/ running)
            /\ depth' = depth + 1
    /\ UNCHANGED <<offset>>

\* MouseButton::Left arm of mouse_released
ReleaseLeft ==
    /\ invalid' = TRUE
    /\ dragging' = FALSE
    /\ IF mouse_pos0 = None \/ mouse_pos1 = None
       THEN \* Option::unwrap() on None
            /\ panicked' = TRUE
            /\ UNCHANGED <<range_x, range_y, pending, depth>>
       ELSE /\ panicked' = FALSE
            /\ IF mouse_pos0 # mouse_pos1
               THEN /\ depth < MaxZooms
                    /\ range_x' = RebaseX(mouse_pos0, mouse_pos1, WindowRect, range_x)
                    /\ range_y' = RebaseY(mouse_pos0, mouse_pos1, WindowRect, range_y)
                    /\ pending' = (pending \/ running)
                    /\ depth' = depth + 1
               ELSE UNCHANGED <<range_x, range_y, pending, depth>>
    /\ UNCHANGED <<offset>>

\* ReleaseRight restoring range_y from RANGE_X.
ReleaseRight_WrongRange ==
    /\ offset' = iterations
    /\ range_x' = RANGE_X
    /\ range_y' = RANGE_X
    /\ invalid' = TRUE
    /\ pending' = (pending \/ running)
    /\ depth' = 0
    /\ UNCHANGED <<dragging, panicked>>

\* ReleaseRight ending a drag in progress.
ReleaseRight_CancelsDrag ==
    /\ offset' = iterations
    /\ range_x' = RANGE_X
    /\ range_y' = RANGE_Y
    /\ invalid' = TRUE
    /\ pending' = (pending \/ running)
    /\ depth' = 0
    /\ dragging' = FALSE
    /\ UNCHANGED <<panicked>>

\* MouseButton::Right arm of mouse_released
ReleaseRight ==
    /\ offset' = iterations
    /\ range_x' = RANGE_X
    /\ range_y' = RANGE_Y
    /\ invalid' = TRUE
    /\ pending' = (pending \/ running)
    /\ depth' = 0
    /\ UNCHANGED <<dragging, panicked>>

\* fn mouse_released(app, model, button)
mouse_released(button) ==
    /\ CanHandle
    /\ CASE button = "Left" -> ReleaseLeft
         [] button = "Right" -> ReleaseRight
         [] OTHER -> UNCHANGED <<invalid, dragging, offset, range_x, range_y,
                                 panicked, pending, depth>>
    /\ last' = <<"mouse_released", button>>
    /\ pre' = [range_x |-> range_x, range_y |-> range_y, dragging |-> dragging]
    /\ UNCHANGED <<raster, call>>
    /\ UNCHANGED <<iterations, mouse_pos0, mouse_pos1, running, since_start, pc>>

\* update storing the new budget in offset alone while paused.
update_OffsetOnly(t) ==
    LET d == t \div STEP_DIV
        cleared == IF invalid /\ running THEN FALSE ELSE invalid
    IN  /\ CanHandle
        /\ since_start' = t
        /\ IF d # iterations
           THEN /\ invalid' = TRUE
                /\ iterations' = IF running THEN d ELSE iterations
                /\ offset' = IF ~running THEN d ELSE offset
           ELSE /\ invalid' = cleared
                /\ UNCHANGED <<iterations, offset>>
        /\ pc' = "view"
        /\ last' = <<"update">>
        /\ UNCHANGED <<dragging, mouse_pos0, mouse_pos1, range_x, range_y,
                       running, panicked, pending, depth, pre,
                   raster, call>>

\* fn update(_, model, update); t is update.since_start.as_millis()
update(t) ==
    LET d == t \div STEP_DIV
        cleared == IF invalid /\ running THEN FALSE ELSE invalid
    IN  /\ CanHandle
        /\ since_start' = t
        /\ IF d # iterations
           THEN /\ invalid' = TRUE
                /\ iterations' = d
                /\ offset' = IF ~running THEN d ELSE offset
           ELSE /\ invalid' = cleared
                /\ UNCHANGED <<iterations, offset>>
        /\ pc' = "view"
        /\ last' = <<"update">>
        /\ UNCHANGED <<dragging, mouse_pos0, mouse_pos1, range_x, range_y,
                       running, panicked, pending, depth, pre,
                   raster, call>>

\* The guard of view without the drag: nothing is drawn while dragging on a
\* valid frame.
Renders_IgnoresDrag == running /\ invalid

\* The guard at the head of view: the raster pipeline runs.
Renders == running /\ (invalid \/ dragging)

\* fn view(app, model, frame)
view ==
    /\ pc = "view"
    /\ ~panicked
    /\ IF Renders
       THEN /\ panicked' = (offset > iterations)  \* usize subtraction
            /\ pending' = FALSE
            /\ last' = <<"view", "render">>
       ELSE /\ last' = <<"view", "return">>
            /\ UNCHANGED <<panicked, pending>>
    /\ pc' = "events"
    /\ UNCHANGED <<fields, since_start, depth, pre, raster, call>>

\* The clock is monotonic: each tick reads a value not below the last one.
Tick ==
    \E dt \in ClockSteps :
        /\ since_start + dt <= MaxElapsed
        /\ update(since_start + dt)

Next ==
    \/ \E key \in Keys : key_pressed(key)
    \/ \E button \in Buttons, p \in PressPos : mouse_pressed(button, p)
    \/ \E pos \in MovePos : mouse_moved(pos)
    \/ \E button \in Buttons : mouse_released(button)
    \/ Tick
    \/ view

Spec == Init /\ [][Next]_vars

\* ------------------------------------------------- the raster pipeline
\* view's (0..WH_SIZE).into_par_iter().map(..).collect::<Vec<[u8; 3]>>()
\*        .into_iter().flat_map(|v| v).collect(), traced step by step: the
\* index range is split into contiguous chunks, the chunks advance in any
\* interleaving, each result is written at its index's place in the collected
\* vector, and the flattening runs after the join.

\* let iterations = model.iterations - model.offset
EffectiveIterations == iterations - offset

\* to_color(mandelbrot(i as f64, iterations, &range_x, &range_y), iterations)
PixelColor(i) ==
    to_color(mandelbrot(i, EffectiveIterations, range_x, range_y),
             EffectiveIterations)

\* First indices of the traced tiles: the frame's first pixels, pixels of row 0
\* across the |c| = 2 circle, a row boundary, the frame's last pixels.
TileStarts == {0, 165, WIDTH - 2, WH_SIZE - RasterLen}

\* The default viewport and the one a drag from (-300, 200) to (300, -200)
\* zooms it to.
Viewports ==
    {[x |-> RANGE_X, y |-> RANGE_Y, depth |-> 0],
     [x |-> RebaseX(Point(R(-300), R(200)), Point(R(300), R(-200)), WindowRect, RANGE_X),
      y |-> RebaseY(Point(R(-300), R(200)), Point(R(300), R(-200)), WindowRect, RANGE_Y),
      depth |-> 1]}

\* A model the controller can have reached when view is called, and a tile.
RasterInit ==
    /\ dragging = FALSE
    /\ invalid = TRUE
    /\ iterations \in 0..MaxBudget
    /\ offset \in 0..iterations
    /\ mouse_pos0 = None
    /\ mouse_pos1 = None
    /\ \E v \in Viewports :
          /\ range_x = v.x
          /\ range_y = v.y
          /\ depth = v.depth
    /\ running = TRUE
    /\ since_start = iterations * STEP_DIV
    /\ panicked = FALSE
    /\ pc = "view"
    /\ last = <<"update">>
    /\ pending = FALSE
    /\ pre = [range_x |-> RANGE_X, range_y |-> RANGE_Y, dragging |-> FALSE]
    /\ \E lo \in TileStarts : raster = [pc |-> "idle", lo |-> lo]
    /\ call = NoCall

\* The chunks a set of cut points splits lo..lo+len-1 into.
Chunks(lo, len, cuts) ==
    LET starts == {lo} \cup cuts
    IN  {[lo |-> a,
          hi |-> IF \E b \in starts : b > a
                 THEN CHOOSE b \in starts : b > a /\ \A e \in starts : e > a => b <= e
                 ELSE lo + len,
          next |-> a] : a \in starts}

\* into_par_iter(): the range is split into at most MaxWorkers chunks.
RasterStart ==
    /\ raster.pc = "idle"
    /\ pc = "view"
    /\ Renders
    /\ \E cuts \in SUBSET ((raster.lo + 1)..(raster.lo + RasterLen - 1)) :
          /\ Cardinality(cuts) < MaxWorkers
          /\ raster' = [pc |-> "map", lo |-> raster.lo,
                        chunks |-> Chunks(raster.lo, RasterLen, cuts),
                        slots |-> [i \in raster.lo..(raster.lo + RasterLen - 1) |-> <<>>],
                        written |-> 0]
    /\ UNCHANGED <<fields, since_start, panicked, pc, last, pending, depth, pre, call>>

\* The map writing each result at the next free place of the vector.
WorkerStep_CompletionOrder(ch) ==
    /\ ch.next < ch.hi
    /\ raster' = [raster EXCEPT
                    !.chunks = (raster.chunks \ {ch}) \cup {[ch EXCEPT !.next = ch.next + 1]},
                    !.slots[raster.lo + raster.written] = PixelColor(ch.next),
                    !.written = raster.written + 1]

\* One worker maps the next index of its chunk and writes the result at the
\* index's place in the collected vector.
WorkerStep(ch) ==
    /\ ch.next < ch.hi
    /\ raster' = [raster EXCEPT
                    !.chunks = (raster.chunks \ {ch}) \cup {[ch EXCEPT !.next = ch.next + 1]},
                    !.slots[ch.next] = PixelColor(ch.next),
                    !.written = raster.written + 1]

RasterStep ==
    /\ raster.pc = "map"
    /\ \E ch \in raster.chunks : WorkerStep(ch)
    /\ UNCHANGED <<fields, since_start, panicked, pc, last, pending, depth, pre, call>>

\* .into_iter().flat_map(|v| v).collect() over slots[lo..hi-1]
RECURSIVE Flatten(_, _, _)
Flatten(slots, lo, hi) ==
    IF lo >= hi THEN <<>> ELSE slots[lo] \o Flatten(slots, lo + 1, hi)

\* collect() returns once every chunk is done; the vector is then flattened.
RasterCollect ==
    /\ raster.pc = "map"
    /\ \A ch \in raster.chunks : ch.next = ch.hi
    /\ raster' = [pc |-> "done", lo |-> raster.lo,
                  workers |-> Cardinality(raster.chunks),
                  buf |-> Flatten(raster.slots, raster.lo, raster.lo + RasterLen)]
    /\ UNCHANGED <<fields, since_start, panicked, pc, last, pending, depth, pre, call>>

RasterNext ==
    \/ RasterStart
    \/ RasterStep
    \/ RasterCollect

RasterSpec == RasterInit /\ [][RasterNext]_vars

\* ------------------------------------------------------- the running loop
\* nannou's loop calls update and then view once per frame for as long as the
\* process lives, and update reads a monotonic clock that does not stand
\* still: a frame is always finished (view follows update), and ticks that
\* read a later time keep coming.

AdvancingTick ==
    \E dt \in ClockSteps \ {0} :
        /\ since_start + dt <= MaxElapsed
        /\ update(since_start + dt)

LiveSpec == Spec /\ WF_vars(view) /\ SF_vars(AdvancingTick)

\* ------------------------------------------------ calls of pure functions
\* One call of the escape-time loop, of to_color or of the map closure of view
\* (the colour of one pixel), from its arguments to its result.

Complex(re, im) == [re |-> re, im |-> im]

\* Points c of the plane: on and inside the circle |c| = 2, and outside it.
\* The points with a fractional coordinate escape within MaxCap iterations,
\* which keeps the exact iterates short.
EscapePoints ==
    {Complex(R(-2), R(0)), Complex(R(0), R(0)), Complex(R(-1), R(0)),
     Complex(R(1), R(0)), Complex(R(2), R(0)), Complex(R(0), R(1)),
     Complex(R(0), R(2)), Complex(R(1), R(1)), Complex(Rat(1, 2), Rat(1, 2)),
     Complex(Rat(-7, 4), Rat(1, 10)), Complex(R(2), R(1)), Complex(R(-3), R(0))}

\* Pixel indices: the first, two across the |c| = 2 circle in row 0, column 0
\* of row HEIGHT / 2, and the last.
ProbePixels == {0, 166, 167, (HEIGHT \div 2) * WIDTH, WH_SIZE - 1}

\* mandelbrot's loop on the point c with the cap n
EscapeCalls ==
    {[pc |-> "call", fn |-> "mandelbrot", args |-> <<c, n>>, result |-> <<>>] :
        c \in EscapePoints, n \in 0..MaxCap}

\* to_color is only called with a count that mandelbrot returned under the
\* same limit, so value <= limit.
ColorCalls ==
    {[pc |-> "call", fn |-> "to_color", args |-> <<value, limit>>, result |-> <<>>] :
        value \in 0..MaxLimit, limit \in 0..MaxLimit}

\* The map closure on pixel i with the iteration count n
PixelCalls ==
    {[pc |-> "call", fn |-> "pixel", args |-> <<i, n>>, result |-> <<>>] :
        i \in ProbePixels, n \in 0..MaxCap}

PureInit ==
    /\ dragging = FALSE
    /\ invalid = TRUE
    /\ iterations = 0
    /\ mouse_pos0 = None
    /\ mouse_pos1 = None
    /\ offset = 0
    /\ range_x = RANGE_X
    /\ range_y = RANGE_Y
    /\ running = TRUE
    /\ since_start = 0
    /\ panicked = FALSE
    /\ pc = "view"
    /\ last = <<"update">>
    /\ pending = FALSE
    /\ depth = 0
    /\ pre = [range_x |-> RANGE_X, range_y |-> RANGE_Y, dragging |-> FALSE]
    /\ raster = NoRaster
    /\ \/ call \in EscapeCalls
       \/ call \in {c \in ColorCalls : c.args[1] <= c.args[2]}
       \/ call \in PixelCalls

Returns(fn, result) ==
    /\ call.pc = "call"
    /\ call.fn = fn
    /\ call' = [call EXCEPT !.pc = "return", !.result = result]
    /\ UNCHANGED <<fields, since_start, panicked, pc, last, pending, depth, pre,
                   raster>>

\* The escape-time loop of mandelbrot run on the point c with the cap n.
EscapeReturn == Returns("mandelbrot", EscapeCount(call.args[1], call.args[2]))

\* to_color(value, limit)
ColorReturn == Returns("to_color", to_color(call.args[1], call.args[2]))

\* to_color(mandelbrot(i as f64, iterations, &range_x, &range_y), iterations)
PixelReturn ==
    /\ call.fn = "pixel"
    /\ \E value \in {mandelbrot(call.args[1], call.args[2], range_x, range_y)} :
           Returns("pixel", to_color(value, call.args[2]))

PureNext ==
    \/ EscapeReturn
    \/ ColorReturn
    \/ PixelReturn

PureSpec == PureInit /\ [][PureNext]_vars

\* ------------------------------------------------------------ the claims

Effective == iterations - offset

ReleasedLeft == last = <<"mouse_released", "Left">>
ReleasedRight == last = <<"mouse_released", "Right">>

\* A screen point strictly inside the window rectangle.
StrictlyInside(p, rect) ==
    /\ RLt(rect.left, p.x)
    /\ RLt(p.x, RAdd(rect.left, rect.w))
    /\ RLt(RSub(rect.top, rect.h), p.y)
    /\ RLt(p.y, rect.top)

\* C1: pause freezes depth: a tick that finds running false and leaves it
\* false leaves effectiveIterations = iterations - offset at the value it had
\* before the tick, however far the elapsed clock has advanced.
C1_PauseFreezesDepth ==
    [][(~running /\ ~running' /\ last' = <<"update">>)
          => iterations' - offset' = iterations - offset]_vars

\* C2: a viewport mutation made while running keeps the frame Invalid until
\* the raster pipeline in view has run with the mutated viewport: as long as
\* the mutation has not been rendered, invalid is still set.
C2_InvalidUntilRendered == pending => invalid

\* C3: a primary-button release with no drag in progress (no press before it,
\* or the drag already released) does not panic and leaves range_x and
\* range_y unchanged.
C3_ReleaseWithoutPressIsNoOp ==
    (ReleasedLeft /\ ~pre.dragging)
        => (~panicked /\ range_x = pre.range_x /\ range_y = pre.range_y)

\* C4: in every reachable state offset <= iterations, so the subtraction
\* iterations - offset in view never underflows.
C4_OffsetLeIterations == offset <= iterations

C4_Witness ==
    /\ last = <<"view", "render">>
    /\ 0 < offset
    /\ offset < iterations

\* C5: in every reachable state range_x.start < range_x.end and
\* range_y.start < range_y.end, whichever corner of a selection is the anchor.
C5_RangesOrdered ==
    /\ RLt(range_x.start, range_x.end)
    /\ RLt(range_y.start, range_y.end)

\* A rebase whose anchor is the right-hand corner (a drag to the left).
C5_Witness ==
    /\ ReleasedLeft
    /\ ~panicked
    /\ mouse_pos0 # mouse_pos1
    /\ RLt(mouse_pos1.x, mouse_pos0.x)
    /\ range_x # pre.range_x

\* C7: a secondary-button release leaves range_x = [-2.00, 0.47) and
\* range_y = [-1.12, 1.12) exactly, offset = iterations and the frame Invalid.
C7_ResetRestoresDefaults ==
    ReleasedRight
        => /\ range_x = [start |-> Rat(-200, 100), end |-> Rat(47, 100)]
           /\ range_y = [start |-> Rat(-112, 100), end |-> Rat(112, 100)]
           /\ offset = iterations
           /\ invalid

\* A reset of a viewport that two zooms had moved away from the default.
C7_Witness ==
    /\ ReleasedRight
    /\ pre.range_x # RANGE_X
    /\ pre.range_y # RANGE_Y
    /\ RLt(RSub(pre.range_x.end, pre.range_x.start), R(1))
    /\ iterations > 0

\* C8: a primary release with anchor = current leaves range_x and range_y
\* unchanged and does not panic.
C8_DegenerateReleaseNoOp ==
    (ReleasedLeft /\ mouse_pos0 # None /\ mouse_pos0 = mouse_pos1)
        => (~panicked /\ range_x = pre.range_x /\ range_y = pre.range_y)

\* A degenerate release that ends a drag, on a zoomed viewport.
C8_Witness ==
    /\ ReleasedLeft
    /\ pre.dragging
    /\ mouse_pos0 # None
    /\ mouse_pos0 = mouse_pos1
    /\ depth > 0

RECURSIVE SequentialFrame(_, _)
SequentialFrame(lo, hi) ==
    IF lo >= hi THEN <<>> ELSE PixelColor(lo) \o SequentialFrame(lo + 1, hi)

\* C6: whatever the number of chunks and the order in which the pixel
\* computations complete, the assembled buffer has 3 bytes per pixel index,
\* bytes 3k..3k+3 hold the colour of the k-th pixel index, and the buffer is
\* the one a sequential pass over the indices produces.
C6_FrameDeterministic ==
    raster.pc = "done"
        => /\ Len(raster.buf) = 3 * RasterLen
           /\ \A k \in 0..(RasterLen - 1) :
                 SubSeq(raster.buf, 3 * k + 1, 3 * k + 3) = PixelColor(raster.lo + k)
           /\ raster.buf = SequentialFrame(raster.lo, raster.lo + RasterLen)

\* A frame of two colours assembled from the work of two chunks.
C6_Witness ==
    /\ raster.pc = "done"
    /\ raster.workers = 2
    /\ \E k \in 0..(RasterLen - 2) :
          PixelColor(raster.lo + k) # PixelColor(raster.lo + k + 1)

\* C10: for every pixel index i, with column = i mod W and row = i div W, the
\* point of pixel i is real = range_x.start + (range_x.end - range_x.start) *
\* column / W, imag = range_y.start + (range_y.end - range_y.start) * row / H;
\* so the pixels of one row share their imaginary coordinate, and pixel 0 maps
\* to (range_x.start, range_y.start).
C10_PixelToPlaneMatchesReference ==
    raster.pc # "off"
        => \A i \in raster.lo..(raster.lo + RasterLen - 1) :
              LET c == PixelPoint(i, range_x, range_y)
                  column == i % WIDTH
                  row == i \div WIDTH
              IN  /\ c.re = RAdd(range_x.start,
                                 RDiv(RMul(RSub(range_x.end, range_x.start), R(column)),
                                      R(WIDTH)))
                  /\ c.im = RAdd(range_y.start,
                                 RDiv(RMul(RSub(range_y.end, range_y.start), R(row)),
                                      R(HEIGHT)))
                  /\ (i = 0 => c = [re |-> range_x.start, im |-> range_y.start])

Returned(fn) == call.pc = "return" /\ call.fn = fn

\* |c| <= 2 for a rational point c
InDisk2(c) ==
    RLe(RAdd(RMul(c.re, c.re), RMul(c.im, c.im)), R(4))

\* C11: for every cap n >= 0 and every point c with |c| <= 2 the escape-time
\* loop returns a count j with 0 <= j <= n, and with n = 0 it returns 0.
C11_EscapeCountInRange ==
    (Returned("mandelbrot") /\ InDisk2(call.args[1]))
        => /\ 0 <= call.result
           /\ call.result <= call.args[2]
           /\ (call.args[2] = 0 => call.result = 0)

\* A point inside the disk that escapes before a positive cap is used up.
C11_Witness ==
    /\ Returned("mandelbrot")
    /\ InDisk2(call.args[1])
    /\ call.args[1] # Complex(R(0), R(0))
    /\ 0 < call.result
    /\ call.result < call.args[2]

\* C12: the escape count of a point never decreases when the cap grows, and a
\* count k below the cap n (the point escaped) stays k under every cap m >= n.
C12_EscapeCountMonotone ==
    Returned("mandelbrot") =>
        \A m \in call.args[2]..MaxCap :
            LET atM == EscapeCount(call.args[1], m)
            IN  /\ call.result <= atM
                /\ (call.result < call.args[2] => atM = call.result)

\* A point that escaped below its cap, with larger caps left to compare with.
C12_Witness ==
    /\ Returned("mandelbrot")
    /\ call.args[2] < MaxCap
    /\ call.result < call.args[2]
    /\ EscapeCount(call.args[1], MaxCap) = call.result

\* C13: on every call of view the pixel map is run if and only if running is
\* true and the frame is invalid or a drag is in progress; otherwise view
\* returns without computing or drawing anything.
C13_RenderIffRunningAndDirty ==
    last[1] = "view" =>
        ((last = <<"view", "render">>) <=> (running /\ (invalid \/ dragging)))

\* A frame drawn only because a drag is in progress.
C13_Witness ==
    /\ last = <<"view", "render">>
    /\ dragging
    /\ ~invalid

\* C14: in every state mouse_pos0 and mouse_pos1 are present if and only if
\* dragging is true (a primary press not yet followed by a primary release);
\* a primary release clears them.
C14_PointsPresentIffDragging ==
    /\ (mouse_pos0 # None) <=> dragging
    /\ (mouse_pos1 # None) <=> dragging

C16_AspectLockedDragKeepsDirection ==
    (last[1] = "mouse_moved" /\ dragging) =>
        LET p == last[2]
            dx == RSub(mouse_pos1.x, mouse_pos0.x)
            dy == RSub(mouse_pos1.y, mouse_pos0.y)
        IN  /\ mouse_pos1.x = p.x
            /\ RMul(RAbs(dy), WindowRect.w) = RMul(RAbs(dx), WindowRect.h)
            /\ RLt(mouse_pos0.x, p.x) => RLe(R(0), dx)
            /\ RLt(p.x, mouse_pos0.x) => RLe(dx, R(0))
            /\ RLt(mouse_pos0.y, p.y) => RLe(R(0), dy)
            /\ RLt(p.y, mouse_pos0.y) => RLe(dy, R(0))

\* C17: the escape test is inclusive: the point c = -2 + 0i, whose orbit stays
\* at |z| = 2, never escapes (its count equals the cap n for every n), and
\* with the default viewport the pixel at column 0 of row HEIGHT / 2, which
\* is that point, is black under every iteration count.
C17_BoundaryPointNeverEscapes ==
    /\ (Returned("mandelbrot") /\ call.args[1] = Complex(R(-2), R(0)))
          => call.result = call.args[2]
    /\ (Returned("pixel") /\ call.args[1] = (HEIGHT \div 2) * WIDTH)
          => /\ PixelPoint(call.args[1], range_x, range_y) = Complex(R(-2), R(0))
             /\ call.result = <<0, 0, 0>>

\* The loop has run MaxCap times on c = -2 without leaving.
C17_Witness ==
    /\ Returned("mandelbrot")
    /\ call.args[1] = Complex(R(-2), R(0))
    /\ call.args[2] = MaxCap
    /\ call.result = MaxCap

\* C18: the key R sets offset to iterations and leaves range_x, range_y,
\* running, dragging, the two points and invalid unchanged; the key Space
\* flips running and leaves every other field unchanged; any other key
\* changes no field.
C18_KeysHaveMinimalEffect ==
    [][/\ (last' = <<"key_pressed", "R">>) =>
             /\ offset' = iterations
             /\ UNCHANGED <<range_x, range_y, running, dragging, mouse_pos0,
                            mouse_pos1, invalid>>
       /\ (last' = <<"key_pressed", "Space">>) =>
             /\ running' = ~running
             /\ UNCHANGED <<dragging, invalid, iterations, mouse_pos0, mouse_pos1,
                            offset, range_x, range_y>>
       /\ (last'[1] = "key_pressed" /\ last'[2] \notin {"R", "Space"}) =>
             UNCHANGED fields]_vars

\* R has been pressed during a drag on a valid frame, after the budget grew.
C18_Witness ==
    /\ last = <<"key_pressed", "R">>
    /\ offset = iterations
    /\ iterations > 0
    /\ dragging
    /\ ~invalid

\* C20: a secondary release during a primary drag does not cancel the drag:
\* it sets range_x and range_y to the defaults and offset to iterations, and
\* leaves dragging and the two points unchanged; the primary release that
\* follows it with anchor # current rebases the selection through the default
\* ranges, not through the ranges before the reset.
C20_RightReleaseKeepsDrag ==
    [][/\ (dragging /\ last' = <<"mouse_released", "Right">>) =>
             /\ range_x' = RANGE_X
             /\ range_y' = RANGE_Y
             /\ offset' = iterations
             /\ dragging'
             /\ UNCHANGED <<mouse_pos0, mouse_pos1>>
       /\ (/\ ReleasedRight
           /\ dragging
           /\ mouse_pos0 # mouse_pos1
           /\ last' = <<"mouse_released", "Left">>) =>
             /\ range_x' = RebaseX(mouse_pos0, mouse_pos1, WindowRect, RANGE_X)
             /\ range_y' = RebaseY(mouse_pos0, mouse_pos1, WindowRect, RANGE_Y)
             /\ ~dragging']_vars

\* A secondary release has reset a zoomed viewport while a drag with a
\* selection is still in progress.
C20_Witness ==
    /\ ReleasedRight
    /\ pre.dragging
    /\ dragging
    /\ mouse_pos0 # mouse_pos1
    /\ pre.range_x # RANGE_X
    /\ range_x = RANGE_X

\* No later reading of the clock is left within the traced time.
ClockExhausted == \A dt \in ClockSteps \ {0} : since_start + dt > MaxElapsed

\* C19: if running stays true and the clock keeps advancing, every mutation
\* of the viewport (rebase or reset) is eventually followed by a run of the
\* raster pipeline on the mutated ranges, even when invalid was cleared
\* before the next call of view.
C19_MutationEventuallyRendered ==
    pending ~> (~pending \/ ~running \/ ClockExhausted)

====
